---- MODULE Spec2Model ----
(***************************************************************************)
(* A model of the character-level n-gram predictor NgramCharacterModel    *)
(* (Code/ngram.py).                                                        *)
(*                                                                         *)
(* Python strings are modelled as sequences of one-character strings, so  *)
(* that slicing, suffixes and prefixes are computed and not assumed.       *)
(* Python dicts are functions whose DOMAIN is the set of keys.             *)
(* A probability returned by get_char_probability is the exact rational    *)
(* <<num, den>>; the float score of get_word_probability is a fixed-point  *)
(* number with FP fractional units (see the scoring section).              *)
(***************************************************************************)
EXTENDS Integers, Sequences, FiniteSets, TLC

(***************************************************************************)
(* Bounds of the model.                                                    *)
(***************************************************************************)
MaxCorpusLen == 4   \* longest raw corpus text passed to the constructor
MaxOrder     == 2   \* largest n passed to the constructor
MaxCtxLen    == 2   \* longest context / prefix string passed to a query

\* Characters a raw corpus is drawn from: a lower-case letter, an upper-case
\* letter, whitespace and a character the normalisation removes.
CorpusChars == {"a", "B", " ", "1"}
Corpora == UNION {[1..l -> CorpusChars] : l \in 0..MaxCorpusLen}
\* Orders passed as n, the non-positive ones included.
Orders == (0 - 1)..MaxOrder
\* Characters of query contexts and the characters asked about.
QueryChars == {"a", "b", " "}
Contexts == UNION {[1..l -> QueryChars] : l \in 0..MaxCtxLen}
\* Prefixes typed by a user: lower and upper case letters.
PrefixChars == {"a", "b", "A"}
Prefixes == UNION {[1..l -> PrefixChars] : l \in 0..MaxCtxLen}
\* Values passed as top_k.
TopKs == {0 - 1, 0, 1, 2}

(***************************************************************************)
(* Python string and list primitives.                                      *)
(***************************************************************************)
Lowers == <<"a","b","c","d","e","f","g","h","i","j","k","l","m",
            "n","o","p","q","r","s","t","u","v","w","x","y","z">>
Uppers == <<"A","B","C","D","E","F","G","H","I","J","K","L","M",
            "N","O","P","Q","R","S","T","U","V","W","X","Y","Z">>
Range(s) == {s[i] : i \in DOMAIN s}
IsLetter(c) == c \in Range(Lowers) \cup Range(Uppers)
IsSpace(c) == c \in {" ", "\t", "\n"}

\* str.lower() on one character and on a string
LowerChar(c) ==
  IF \E i \in DOMAIN Uppers : Uppers[i] = c
  THEN Lowers[CHOOSE i \in DOMAIN Uppers : Uppers[i] = c]
  ELSE c
Lower(s) == [i \in DOMAIN s |-> LowerChar(s[i])]

Min(a, b) == IF a < b THEN a ELSE b
Max(a, b) == IF a > b THEN a ELSE b

\* s[a:] with Python's treatment of negative and out-of-range indices;
\* note that s[-0:] is s[0:], the whole string
PySliceFrom(s, a) ==
  LET start == IF a < 0 THEN Max(Len(s) + a, 0) ELSE Min(a, Len(s))
  IN  SubSeq(s, start + 1, Len(s))
\* s[:b]
PySliceTo(s, b) ==
  LET stop == IF b < 0 THEN Max(Len(s) + b, 0) ELSE Min(b, Len(s))
  IN  SubSeq(s, 1, stop)
\* s[a:b] for 0 <= a <= b
PySlice(s, a, b) == SubSeq(s, a + 1, Min(b, Len(s)))
\* word.startswith(prefix)
StartsWith(word, prefix) ==
  /\ Len(prefix) <= Len(word)
  /\ SubSeq(word, 1, Len(prefix)) = prefix

\* dict.get(k, d), and d[k] = v
Get(m, k, d) == IF k \in DOMAIN m THEN m[k] ELSE d
Put(m, k, v) == [x \in (DOMAIN m) \cup {k} |-> IF x = k THEN v ELSE m[x]]
EmptyDict == <<>>

(***************************************************************************)
(* __init__: normalisation of the corpus, tokens, vocabulary.              *)
(***************************************************************************)
\* a substitution that removes nothing
StripNothing(s) == s
\* re.sub(r'[^a-zA-Z\s]', '', s)
StripNonAlpha(s) == SelectSeq(s, LAMBDA c : IsLetter(c) \/ IsSpace(c))

\* re.sub(r'\s+', ' ', s)
RECURSIVE CollapseSpaces(_)
CollapseSpaces(s) ==
  IF s = <<>> THEN <<>>
  ELSE IF IsSpace(Head(s))
       THEN IF Len(s) >= 2 /\ IsSpace(s[2])
            THEN CollapseSpaces(Tail(s))
            ELSE <<" ">> \o CollapseSpaces(Tail(s))
       ELSE <<Head(s)>> \o CollapseSpaces(Tail(s))

\* str.strip()
RECURSIVE LStrip(_)
LStrip(s) == IF s # <<>> /\ IsSpace(Head(s)) THEN LStrip(Tail(s)) ELSE s
RECURSIVE RStrip(_)
RStrip(s) ==
  IF s # <<>> /\ IsSpace(s[Len(s)]) THEN RStrip(SubSeq(s, 1, Len(s) - 1)) ELSE s
Strip(s) == RStrip(LStrip(s))

Normalize(corpus) == Strip(CollapseSpaces(StripNonAlpha(Lower(corpus))))

\* nltk sent_tokenize on normalised text (letters and single spaces, no
\* punctuation): no sentence for the empty text, else the text as one sentence
sent_tokenize(text) == IF text = <<>> THEN <<>> ELSE <<text>>

\* nltk word_tokenize on such a sentence: the maximal runs of letters
RECURSIVE word_tokenize(_)
word_tokenize(sentence) ==
  IF sentence = <<>> THEN <<>>
  ELSE IF IsSpace(Head(sentence)) THEN word_tokenize(Tail(sentence))
  ELSE LET k == IF \E i \in DOMAIN sentence : IsSpace(sentence[i])
                THEN (CHOOSE i \in DOMAIN sentence :
                        /\ IsSpace(sentence[i])
                        /\ \A h \in 1..(i - 1) : ~IsSpace(sentence[h])) - 1
                ELSE Len(sentence)
       IN  <<SubSeq(sentence, 1, k)>> \o word_tokenize(SubSeq(sentence, k + 1, Len(sentence)))

StartMarker == <<"^">>
EndMarker == <<"$">>
\* ['^'] * n
Repeat(x, n) == [i \in 1..n |-> x]

\* the body of the loop over sentences
SentenceWords(sentence, n) ==
  LET tokens == word_tokenize(sentence)
  IN  IF tokens # <<>> THEN Repeat(StartMarker, n) \o tokens \o <<EndMarker>> ELSE <<>>

RECURSIVE CorpusWords(_, _)
CorpusWords(sentences, n) ==
  IF sentences = <<>> THEN <<>>
  ELSE SentenceWords(Head(sentences), n) \o CorpusWords(Tail(sentences), n)

\* ' '.join(words)
RECURSIVE Join(_)
Join(words) ==
  IF words = <<>> THEN <<>>
  ELSE IF Len(words) = 1 THEN words[1]
  ELSE words[1] \o <<" ">> \o Join(Tail(words))

\* set(w for w in words if w not in {'^', '$'})
VocabularySet(words) == {w \in Range(words) : w \notin {StartMarker, EndMarker}}

\* list(set(...)): the enumeration order of a set of strings is not fixed by
\* the language (string hashing is randomised per process), so every
\* enumeration is a possible value of self.words
Enumerations(S) ==
  {f \in [1..Cardinality(S) -> S] : \A i, j \in 1..Cardinality(S) : f[i] = f[j] => i = j}

\* Counter(words)
word_count(words) ==
  [w \in Range(words) |-> Cardinality({i \in DOMAIN words : words[i] = w})]

(***************************************************************************)
(* _train and _calculate_backoff_weights.                                  *)
(***************************************************************************)
\* [defaultdict(...) for _ in range(n + 1)]
EmptyTables(n) == [j \in 0..n |-> EmptyDict]

\* an inner loop body that forgets the context total
TrainAtCountsOnly(tabs, S, i, j) ==
  IF i >= j - 1
  THEN LET context == PySlice(S, i - (j - 1), i)
           next_char == S[i + 1]
           inner == Get(tabs.counts[j], context, EmptyDict)
       IN  [counts |-> [tabs.counts EXCEPT
                          ![j] = Put(@, context, Put(inner, next_char, Get(inner, next_char, 0) + 1))],
            contexts |-> tabs.contexts]
  ELSE tabs

\* the body of the inner loop of _train for position i and order j
TrainAt(tabs, S, i, j) ==
  IF i >= j - 1
  THEN LET context == PySlice(S, i - (j - 1), i)
           next_char == S[i + 1]
           inner == Get(tabs.counts[j], context, EmptyDict)
       IN  [counts |-> [tabs.counts EXCEPT
                          ![j] = Put(@, context, Put(inner, next_char, Get(inner, next_char, 0) + 1))],
            contexts |-> [tabs.contexts EXCEPT
                          ![j] = Put(@, context, Get(@, context, 0) + 1)]]
  ELSE tabs

\* for j in range(j, n + 1)
RECURSIVE TrainOrders(_, _, _, _, _)
TrainOrders(tabs, S, i, j, n) ==
  IF j > n THEN tabs ELSE TrainOrders(TrainAt(tabs, S, i, j), S, i, j + 1, n)

\* for i in range(i, len(corpus) - n + 1)
RECURSIVE TrainFrom(_, _, _, _)
TrainFrom(tabs, S, i, n) ==
  IF i >= Len(S) - n + 1 THEN tabs
  ELSE TrainFrom(TrainOrders(tabs, S, i, 1, n), S, i + 1, n)

Train(S, n) == TrainFrom([counts |-> EmptyTables(n), contexts |-> EmptyTables(n)], S, 0, n)

\* backoff weights in tenths: 4 stands for 0.4 and 1 for 0.1
BackoffWeights(ctxs, n) ==
  [j \in 0..n |->
     IF j >= 2
     THEN [context \in DOMAIN ctxs[j] |->
             IF PySliceFrom(context, 1) \in DOMAIN ctxs[j - 1] THEN 4 ELSE 1]
     ELSE EmptyDict]

(***************************************************************************)
(* get_char_probability.                                                   *)
(***************************************************************************)
AlphaPerCent == 1     \* alpha = 0.01, in hundredths
PerCent == 100        \* hundredths in one unit
vocab_size == 27

\* the estimate without the pseudo-count in the numerator
Unsmoothed(char_count, total_count) ==
  <<PerCent * char_count, PerCent * total_count + AlphaPerCent * vocab_size>>
\* (char_count + alpha) / (total_count + alpha * vocab_size) as <<num, den>>
Smoothed(char_count, total_count) ==
  <<PerCent * char_count + AlphaPerCent, PerCent * total_count + AlphaPerCent * vocab_size>>
\* 1.0 / 27
Uniform == <<1, 27>>

\* the dict after a read d[k] of a defaultdict whose factory yields v
DefaultRead(m, k, v) == IF k \in DOMAIN m THEN m ELSE Put(m, k, v)

\* context[-(j - 1):]
CurrContext(context, j) == PySliceFrom(context, 0 - (j - 1))

\* the iteration with the membership test written as a read of the
\* defaultdict: if self.counts[j][curr_context]: ...
CharStepReading(tabs, j, context, char) ==
  LET curr_context == PySliceFrom(context, 0 - (j - 1))
      read == [tabs.counts EXCEPT ![j] = DefaultRead(@, curr_context, EmptyDict)]
  IN  IF DOMAIN read[j][curr_context] # {}
      THEN [returned |-> Get(tabs.contexts[j], curr_context, 0) # 0,
            prob |-> Smoothed(Get(read[j][curr_context], char, 0),
                              Get(tabs.contexts[j], curr_context, 0)),
            order |-> j,
            counts |-> read,
            contexts |-> [tabs.contexts EXCEPT ![j] = DefaultRead(@, curr_context, 0)]]
      ELSE [returned |-> FALSE, prob |-> Uniform, order |-> 0,
            counts |-> read, contexts |-> tabs.contexts]

\* one iteration of the loop over j: whether it returned, the value, and the
\* tables as the reads leave them
CharStep(tabs, j, context, char) ==
  LET curr_context == CurrContext(context, j)
  IN  IF curr_context \in DOMAIN tabs.counts[j]
      THEN LET total_count == Get(tabs.contexts[j], curr_context, 0)
               char_count == Get(tabs.counts[j][curr_context], char, 0)
           IN  [returned |-> total_count # 0,
                prob |-> Smoothed(char_count, total_count),
                order |-> j,
                counts |-> tabs.counts,
                contexts |-> [tabs.contexts EXCEPT ![j] = DefaultRead(@, curr_context, 0)]]
      ELSE [returned |-> FALSE, prob |-> Uniform, order |-> 0,
            counts |-> tabs.counts, contexts |-> tabs.contexts]

\* for j in range(j, 0, -1): ...; return 1.0 / 27
RECURSIVE CharLoop(_, _, _, _)
\* what follows one iteration r of the loop at order j
CharAfter(r, j, context, char) ==
  IF r.returned
  THEN [prob |-> r.prob, order |-> r.order, counts |-> r.counts, contexts |-> r.contexts]
  ELSE CharLoop([counts |-> r.counts, contexts |-> r.contexts], j - 1, context, char)
CharLoop(tabs, j, context, char) ==
  IF j < 1
  THEN [prob |-> Uniform, order |-> 0, counts |-> tabs.counts, contexts |-> tabs.contexts]
  ELSE CharAfter(CharStep(tabs, j, context, char), j, context, char)

\* get_char_probability(context, char) of a model with tables tabs and order n:
\* the value, the order that produced it (0 for the uniform fall-through),
\* and the tables afterwards
get_char_probability(tabs, n, context, char) ==
  CharLoop(tabs, Min(Len(context) + 1, n), context, char)

(***************************************************************************)
(* get_word_probability.  Floats are fixed-point integers with FP units    *)
(* per 1.0.  exp(sum of log p) is accumulated as the product of the p.     *)
(***************************************************************************)
FP == 1000000
FPRoot == 1000

\* a * b of two fixed-point numbers (split so that no product exceeds 2^31)
MulFP(a, b) == ((a \div FPRoot) * b) \div FPRoot + ((a % FPRoot) * b) \div FP
\* a rational <<num, den>> as fixed point
ToFP(p) == (p[1] * FP) \div p[2]
\* math.log(k) in fixed point for the word frequencies that occur
LnTable == <<0, 693147, 1098612, 1386294, 1609438, 1791759, 1945910, 2079442>>
LnFP(k) == LnTable[Min(k, Len(LnTable))]

\* context[-min(len(context), n - 1):]
InitialContext(context, n) == PySliceFrom(context, 0 - Min(Len(context), n - 1))
\* (curr_context + char)[-min(len(curr_context) + 1, n - 1):]
NextContext(curr_context, char, n) ==
  PySliceFrom(curr_context \o <<char>>, 0 - Min(Len(curr_context) + 1, n - 1))

\* the loop over word[len(context):] from position k on; st carries the
\* running product, the rolling context, the contexts handed to
\* get_char_probability so far and the tables
RECURSIVE WordLoop(_, _, _, _)
\* the body of the loop once get_char_probability has returned r for word[k]
WordAfter(st, r, n, word, k) ==
  IF r.prob[1] > 0
  THEN WordLoop([prod |-> MulFP(st.prod, ToFP(r.prob)),
                 curr_context |-> NextContext(st.curr_context, word[k], n),
                 handed |-> Append(st.handed, st.curr_context), zero |-> FALSE,
                 counts |-> r.counts, contexts |-> r.contexts],
                n, word, k + 1)
  ELSE [st EXCEPT !.prod = 0, !.handed = Append(st.handed, st.curr_context),
                  !.zero = TRUE, !.counts = r.counts, !.contexts = r.contexts]
WordLoop(st, n, word, k) ==
  IF k > Len(word) THEN st
  ELSE WordAfter(st,
                 get_char_probability([counts |-> st.counts, contexts |-> st.contexts],
                                      n, st.curr_context, word[k]),
                 n, word, k)

\* the value returned after the loop ended in st
WordScore(st, freq_boost, length_penalty) ==
  [score |-> IF st.zero THEN 0
             ELSE MulFP(MulFP(st.prod, FP + freq_boost), length_penalty),
   handed |-> st.handed, zero |-> st.zero,
   counts |-> st.counts, contexts |-> st.contexts]

\* get_word_probability(context, word): the score, the contexts handed to
\* get_char_probability, whether the zero-probability branch returned, and
\* the tables afterwards
get_word_probability(tabs, n, freq, context, word) ==
  IF ~StartsWith(word, context)
  THEN [score |-> 0, handed |-> <<>>, zero |-> FALSE,
        counts |-> tabs.counts, contexts |-> tabs.contexts]
  ELSE WordScore(WordLoop([prod |-> FP, curr_context |-> InitialContext(context, n),
                           handed |-> <<>>, zero |-> FALSE,
                           counts |-> tabs.counts, contexts |-> tabs.contexts],
                          n, word, Len(context) + 1),
                 LnFP(1 + Get(freq, word, 0)) \div 10,
                 (10 * FP) \div (10 + (Len(word) - Len(context))))

(***************************************************************************)
(* predict_top_words.                                                      *)
(***************************************************************************)
\* the candidate list without the prefix filter
Unfiltered(ws, context) == ws
\* [word for word in self.words if word.startswith(context)]
Candidates(ws, context) == SelectSeq(ws, LAMBDA w : StartsWith(w, context))

\* [(word, get_word_probability(context, word)) for word in candidates]
RECURSIVE ScoreAll(_, _, _, _, _)
\* the rest of the comprehension once the head candidate got result r
ScoreAfter(acc, r, n, freq, context, candidates) ==
  ScoreAll([scored |-> Append(acc.scored, <<Head(candidates), r.score>>),
            zero |-> acc.zero \/ r.zero,
            counts |-> r.counts, contexts |-> r.contexts],
           n, freq, context, Tail(candidates))
ScoreAll(acc, n, freq, context, candidates) ==
  IF candidates = <<>> THEN acc
  ELSE ScoreAfter(acc,
                  get_word_probability([counts |-> acc.counts, contexts |-> acc.contexts],
                                       n, freq, context, Head(candidates)),
                  n, freq, context, candidates)

\* sorted(..., key=lambda x: x[1], reverse=True): a stable sort, entries of
\* equal score keep their order
\* the insertion of an ascending sort (reverse=True left out)
RECURSIVE InsertAsc(_, _)
InsertAsc(sorted, x) ==
  IF sorted = <<>> THEN <<x>>
  ELSE IF Head(sorted)[2] <= x[2] THEN <<Head(sorted)>> \o InsertAsc(Tail(sorted), x)
  ELSE <<x>> \o sorted
RECURSIVE InsertDesc(_, _)
InsertDesc(sorted, x) ==
  IF sorted = <<>> THEN <<x>>
  ELSE IF Head(sorted)[2] >= x[2] THEN <<Head(sorted)>> \o InsertDesc(Tail(sorted), x)
  ELSE <<x>> \o sorted
RECURSIVE SortedDesc(_, _)
SortedDesc(acc, rest) ==
  IF rest = <<>> THEN acc ELSE SortedDesc(InsertDesc(acc, Head(rest)), Tail(rest))

\* sorted(scored_candidates, ...)[:top_k]
TopOf(sorted, all, top_k) ==
  [result |-> PySliceTo(sorted, top_k), full |-> sorted, zero |-> all.zero,
   counts |-> all.counts, contexts |-> all.contexts]
Ranked(all, top_k) == TopOf(SortedDesc(<<>>, all.scored), all, top_k)

\* predict_top_words(context, top_k) with context already lower-cased
PredictLowered(tabs, n, freq, ws, context, top_k) ==
  Ranked(ScoreAll([scored |-> <<>>, zero |-> FALSE,
                   counts |-> tabs.counts, contexts |-> tabs.contexts],
                  n, freq, context, Candidates(ws, context)),
         top_k)

\* predict_top_words(context, top_k): the list returned (result), the whole
\* sorted candidate list (full), and the tables afterwards
predict_top_words(tabs, n, freq, ws, context, top_k) ==
  PredictLowered(tabs, n, freq, ws, Lower(context), top_k)

(***************************************************************************)
(* TerminalUI (Code/user_interface.py): the fields of the object that      *)
(* input handling reads and writes, and handle_input with its callees.     *)
(***************************************************************************)
MaxKeys == 4   \* most key events passed to handle_input in one session

\* key codes of the curses library
KEY_RESIZE == 410
KEY_BACKSPACE == 263
KEY_LEFT == 260
KEY_RIGHT == 261
\* Key events of a session: Tab, Enter, Esc, Delete, the cursor keys, a
\* resize, and the printable characters ' ', '1', 'a', 'b'.
Keys == {9, 10, 27, 127, KEY_LEFT, KEY_RIGHT, KEY_RESIZE, 32, 49, 97, 98}

\* chr(key) for 32 <= key <= 126
\* (the grave accent, which a string of this language cannot hold, is
\* written "grave")
Ascii == <<
  " ", "!", "\"", "#", "$", "%", "&", "'", "(", ")", "*", "+",
  ",", "-", ".", "/", "0", "1", "2", "3", "4", "5", "6", "7",
  "8", "9", ":", ";", "<", "=", ">", "?", "@", "A", "B", "C",
  "D", "E", "F", "G", "H", "I", "J", "K", "L", "M", "N", "O",
  "P", "Q", "R", "S", "T", "U", "V", "W", "X", "Y", "Z", "[",
  "\\", "]", "^", "_", "grave", "a", "b", "c", "d", "e", "f", "g",
  "h", "i", "j", "k", "l", "m", "n", "o", "p", "q", "r", "s",
  "t", "u", "v", "w", "x", "y", "z", "{", "|", "}", "~">>
Chr(key) == Ascii[key - 31]

\* TerminalUI.__init__
NewUI ==
  [suggestions |-> <<>>, current_suggestion_idx |-> 0, user_input |-> <<>>,
   cursor_pos |-> 0, current_word_keystrokes |-> 0, word_stats |-> <<>>,
   tabKeyCount |-> 0]
NewSession == [ui |-> NewUI, keys |-> <<>>, running |-> TRUE, ended |-> FALSE]

\* len(re.search(r"[^\s]*$", s).group(0))
RECURSIVE TrailingRun(_)
TrailingRun(s) ==
  IF s = <<>> \/ IsSpace(s[Len(s)]) THEN 0
  ELSE 1 + TrailingRun(SubSeq(s, 1, Len(s) - 1))

find_last_word_start(text, cursor_pos) ==
  IF cursor_pos = 0 THEN 0
  ELSE cursor_pos - TrailingRun(PySliceTo(text, cursor_pos))

get_current_word(ui) ==
  PySlice(ui.user_input, find_last_word_start(ui.user_input, ui.cursor_pos), ui.cursor_pos)

ReplacedAt(ui, word_start, new_word) ==
  [ui EXCEPT !.user_input = PySliceTo(ui.user_input, word_start) \o new_word
                            \o PySliceFrom(ui.user_input, ui.cursor_pos),
             !.cursor_pos = word_start + Len(new_word)]
replace_current_word(ui, new_word) ==
  ReplacedAt(ui, find_last_word_start(ui.user_input, ui.cursor_pos), new_word)

\* str.split(): the maximal runs of non-whitespace characters
RECURSIVE Split(_)
Split(s) ==
  IF s = <<>> THEN <<>>
  ELSE IF IsSpace(Head(s)) THEN Split(Tail(s))
  ELSE LET k == IF \E i \in DOMAIN s : IsSpace(s[i])
                THEN (CHOOSE i \in DOMAIN s :
                        /\ IsSpace(s[i])
                        /\ \A h \in 1..(i - 1) : ~IsSpace(s[h])) - 1
                ELSE Len(s)
       IN  <<SubSeq(s, 1, k)>> \o Split(SubSeq(s, k + 1, Len(s)))

\* sum(1 for c in word if c.isalpha())
AlphaLen(word) == Len(SelectSeq(word, IsLetter))

\* finalize_current_word_stats once words = user_input.strip().split()
FinalizedWith(ui, split_words) ==
  IF split_words = <<>>
  THEN [ui EXCEPT !.current_word_keystrokes = 0]
  ELSE [ui EXCEPT !.word_stats =
                     IF AlphaLen(split_words[Len(split_words)]) > 0
                     THEN Append(@, <<ui.current_word_keystrokes,
                                      AlphaLen(split_words[Len(split_words)])>>)
                     ELSE @,
                  !.current_word_keystrokes = 0]
finalize_current_word_stats(ui) == FinalizedWith(ui, Split(Strip(ui.user_input)))

\* what a step of handle_input leaves: the object, the value it returns and
\* the tables of the prediction model
Handling(ui, running, tabs) == [ui |-> ui, running |-> running, tabs |-> tabs]

\* update_suggestions once predict_top_words(context, top_k=10) returned top
Suggested(ui, top) ==
  Handling([ui EXCEPT !.suggestions = [i \in DOMAIN top.result |-> top.result[i][1]],
                      !.current_suggestion_idx = 0],
           TRUE, [counts |-> top.counts, contexts |-> top.contexts])
update_suggestions(ui, m, context) ==
  Suggested(ui, predict_top_words([counts |-> m.counts, contexts |-> m.contexts],
                                  m.n, m.word_freq, m.words, context, 10))
\* current_word = self.get_current_word(); self.update_suggestions(current_word)
Refreshed(ui, m) == update_suggestions(ui, m, get_current_word(ui))

\* key == 9
OnTab(ui) ==
  [ui EXCEPT !.tabKeyCount = @ + 1,
             !.current_suggestion_idx =
                 IF ui.suggestions # <<>> THEN (@ + 1) % Len(ui.suggestions) ELSE @]

\* key == 10
Accepted(ui) ==
  IF ui.suggestions # <<>> /\ ui.current_suggestion_idx < Len(ui.suggestions)
  THEN replace_current_word(ui, ui.suggestions[ui.current_suggestion_idx + 1])
  ELSE ui
OnEnter(ui) ==
  [finalize_current_word_stats(Accepted(ui)) EXCEPT !.suggestions = <<>>,
                                                    !.current_suggestion_idx = 0]

\* key in (curses.KEY_BACKSPACE, 127, 8), with cursor_pos > 0
Deleted(ui) ==
  [ui EXCEPT !.user_input = PySliceTo(ui.user_input, ui.cursor_pos - 1)
                            \o PySliceFrom(ui.user_input, ui.cursor_pos),
             !.cursor_pos = @ - 1,
             !.current_word_keystrokes =
                 IF IsLetter(ui.user_input[ui.cursor_pos]) /\ @ > 0 THEN @ - 1 ELSE @]

\* 32 <= key <= 126, up to the call of update_suggestions
Inserted(ui, char) ==
  [ui EXCEPT !.user_input = PySliceTo(ui.user_input, ui.cursor_pos) \o <<char>>
                            \o PySliceFrom(ui.user_input, ui.cursor_pos),
             !.cursor_pos = @ + 1,
             !.current_word_keystrokes = IF IsLetter(char) THEN @ + 1 ELSE @]
Typed(ui, char) ==
  IF char = " " THEN finalize_current_word_stats(Inserted(ui, char))
  ELSE Inserted(ui, char)

\* handle_input(key) on the object ui whose prediction model is m
handle_input(ui, m, key) ==
  LET tabs == [counts |-> m.counts, contexts |-> m.contexts]
  IN  IF key = KEY_RESIZE THEN Handling(ui, TRUE, tabs)
      ELSE IF key = 27 THEN Handling(ui, FALSE, tabs)
      ELSE IF key = 9 THEN Handling(OnTab(ui), TRUE, tabs)
      ELSE IF key = 10 THEN Handling(OnEnter(ui), TRUE, tabs)
      ELSE IF key \in {KEY_BACKSPACE, 127, 8}
           THEN IF ui.cursor_pos > 0 THEN Refreshed(Deleted(ui), m)
                ELSE Handling(ui, TRUE, tabs)
      ELSE IF key = KEY_LEFT
           THEN IF ui.cursor_pos > 0
                THEN Refreshed([ui EXCEPT !.cursor_pos = @ - 1], m)
                ELSE Handling(ui, TRUE, tabs)
      ELSE IF key = KEY_RIGHT
           THEN IF ui.cursor_pos < Len(ui.user_input)
                THEN Refreshed([ui EXCEPT !.cursor_pos = @ + 1], m)
                ELSE Handling(ui, TRUE, tabs)
      ELSE IF 32 <= key /\ key <= 126 THEN Refreshed(Typed(ui, Chr(key)), m)
      ELSE Handling(ui, TRUE, tabs)

(***************************************************************************)
(* The state: the arguments of the constructor, the fields of the model    *)
(* object, and the last call made with what it returned.                   *)
(***************************************************************************)
VARIABLES
  pc,               \* "init" before the constructor has run, "ready" once a
                    \* model object exists, "returned" when a query has
                    \* returned and its caller holds the result
  args,             \* [corpus, n]: what the constructor is called with
  n,                \* self.n
  counts,           \* self.counts
  contexts,         \* self.contexts
  backoff_weights,  \* self.backoff_weights
  words,            \* self.words
  word_freq,        \* self.word_freq
  call,             \* the last call: its arguments and what it returned
  previous,         \* the model object constructed before this one from the
                    \* same arguments, if there is one
  session           \* a TerminalUI session over the model: the TerminalUI
                    \* object, the keys passed to handle_input so far, the
                    \* loop flag of run and whether run has ended

vars == <<pc, args, n, counts, contexts, backoff_weights, words, word_freq, call,
          previous, session>>
fields == <<n, counts, contexts, backoff_weights, words, word_freq>>

NoCall ==
  [op |-> "none", context |-> <<>>, char |-> "", word |-> <<>>, top_k |-> 0,
   prob |-> <<0, 1>>, order |-> 0, score |-> 0, handed |-> <<>>, zero |-> FALSE,
   result |-> <<>>, full |-> <<>>,
   \* the locals of _train while it runs
   corpus |-> <<>>, i |-> 0, j |-> 0]

Tables == [counts |-> counts, contexts |-> contexts]

NoModel ==
  [built |-> FALSE, n |-> 0, counts |-> EmptyDict, contexts |-> EmptyDict,
   backoff_weights |-> EmptyDict, words |-> <<>>, word_freq |-> EmptyDict]
ThisModel ==
  [built |-> TRUE, n |-> n, counts |-> counts, contexts |-> contexts,
   backoff_weights |-> backoff_weights, words |-> words, word_freq |-> word_freq]

\* Words get_word_probability is asked about: the vocabulary and two words
\* that need not be in it.
QueryWords == Range(words) \cup {<<"b", "a">>, <<"a", "b", "b">>}

Init ==
  /\ pc = "init"
  /\ args \in [corpus : Corpora, n : Orders]
  /\ n = 0
  /\ counts = EmptyDict
  /\ contexts = EmptyDict
  /\ backoff_weights = EmptyDict
  /\ words = <<>>
  /\ word_freq = EmptyDict
  /\ call = NoCall
  /\ previous = NoModel
  /\ session = NewSession

\* the fields of the model object once _train has produced trained
Built(all_words, trained) ==
  /\ n' = args.n
  /\ counts' = trained.counts
  /\ contexts' = trained.contexts
  /\ backoff_weights' = BackoffWeights(trained.contexts, args.n)
  /\ words' \in Enumerations(VocabularySet(all_words))
  /\ word_freq' = word_count(all_words)
Preprocessed(all_words) == Built(all_words, Train(Join(all_words), args.n))

\* NgramCharacterModel(corpus, n): the whole of __init__
Construct ==
  /\ pc \in {"init", "ready"}
  /\ Preprocessed(CorpusWords(sent_tokenize(Normalize(args.corpus)), args.n))
  /\ pc' = "ready"
  /\ call' = NoCall
  /\ previous' = IF pc = "ready" THEN ThisModel ELSE previous
  /\ UNCHANGED <<args, session>>

\* a query returns: the tables are as its reads left them, and the caller
\* holds what it returned
Returns(r, c) ==
  /\ counts' = r.counts
  /\ contexts' = r.contexts
  /\ call' = [c EXCEPT !.prob = r.prob, !.order = r.order, !.score = r.score,
                       !.handed = r.handed, !.zero = r.zero,
                       !.result = r.result, !.full = r.full]
  /\ pc' = "returned"
  /\ UNCHANGED <<args, n, backoff_weights, words, word_freq, previous, session>>

\* the fields of a call record that the query does not set
Blank == [prob |-> <<0, 1>>, order |-> 0, score |-> 0, handed |-> <<>>,
          zero |-> FALSE, result |-> <<>>, full |-> <<>>]

GetCharProbability ==
  /\ pc = "ready"
  /\ \E context \in Contexts, char \in QueryChars \cup {"z"} :
       Returns(get_char_probability(Tables, n, context, char) @@ Blank,
               [NoCall EXCEPT !.op = "get_char_probability",
                              !.context = context, !.char = char])

GetWordProbability ==
  /\ pc = "ready"
  /\ \E context \in Contexts, word \in QueryWords :
       Returns(get_word_probability(Tables, n, word_freq, context, word) @@ Blank,
               [NoCall EXCEPT !.op = "get_word_probability",
                              !.context = context, !.word = word])

PredictTopWords ==
  /\ pc = "ready"
  /\ \E context \in Prefixes, top_k \in TopKs :
       Returns(predict_top_words(Tables, n, word_freq, words, context, top_k) @@ Blank,
               [NoCall EXCEPT !.op = "predict_top_words",
                              !.context = context, !.top_k = top_k])

\* the caller is done with the result of the last query
Return ==
  /\ pc = "returned"
  /\ pc' = "ready"
  /\ call' = NoCall
  /\ UNCHANGED <<args, fields, previous, session>>

Next ==
  \/ Construct
  \/ Return
  \/ GetCharProbability
  \/ GetWordProbability
  \/ PredictTopWords

Spec == Init /\ [][Next]_vars

(***************************************************************************)
(* The constructor step by step: one step of _train is one execution of    *)
(* the body of its inner loop.                                             *)
(***************************************************************************)
\* __init__ up to the call of _train, with the tables still empty and
\* backoff_weights not assigned yet
Entered(all_words) ==
  /\ n' = args.n
  /\ counts' = EmptyTables(args.n)
  /\ contexts' = EmptyTables(args.n)
  /\ backoff_weights' = EmptyDict
  /\ words' \in Enumerations(VocabularySet(all_words))
  /\ word_freq' = word_count(all_words)
  /\ call' = [NoCall EXCEPT !.op = "_train", !.corpus = Join(all_words),
                            !.i = 0, !.j = 1]

TrainStart ==
  /\ pc = "init"
  /\ Entered(CorpusWords(sent_tokenize(Normalize(args.corpus)), args.n))
  /\ pc' = "training"
  /\ UNCHANGED <<args, previous, session>>

\* i in range(len(corpus) - self.n + 1)
InOuterLoop == call.i < Len(call.corpus) - n + 1

\* the tables after one execution of the inner loop body
Trained(tabs) ==
  /\ counts' = tabs.counts
  /\ contexts' = tabs.contexts

\* one execution of the inner loop body, for j in range(1, self.n + 1)
TrainStep ==
  /\ pc = "training"
  /\ InOuterLoop
  /\ call.j <= n
  /\ Trained(TrainAt(Tables, call.corpus, call.i, call.j))
  /\ call' = [call EXCEPT !.j = @ + 1]
  /\ UNCHANGED <<pc, args, n, backoff_weights, words, word_freq, previous, session>>

\* the inner loop is exhausted: the outer loop takes the next position
TrainAdvance ==
  /\ pc = "training"
  /\ InOuterLoop
  /\ call.j > n
  /\ call' = [call EXCEPT !.i = @ + 1, !.j = 1]
  /\ UNCHANGED <<pc, args, fields, previous, session>>

\* _train returns, _calculate_backoff_weights runs and __init__ returns
TrainFinish ==
  /\ pc = "training"
  /\ ~InOuterLoop
  /\ backoff_weights' = BackoffWeights(contexts, n)
  /\ pc' = "ready"
  /\ call' = NoCall
  /\ UNCHANGED <<args, n, counts, contexts, words, word_freq, previous, session>>

TrainNext ==
  \/ TrainStart
  \/ TrainStep
  \/ TrainAdvance
  \/ TrainFinish
  \/ Return
  \/ GetCharProbability
  \/ GetWordProbability
  \/ PredictTopWords

TrainSpec == Init /\ [][TrainNext]_vars

(***************************************************************************)
(* A TerminalUI session over a constructed model: run passes keys to       *)
(* handle_input while it returns True, and finalises on the way out.       *)
(***************************************************************************)
\* Corpora of the session's model: no word, one word, two words, a longer word
UICorpora == {<<>>, <<"a">>, <<"a", " ", "B">>, <<"a", "B">>}
UIInit ==
  /\ Init
  /\ args.corpus \in UICorpora
  /\ args.n \in 1..MaxOrder

\* the model is constructed before TerminalUI.run is entered
UIStart ==
  /\ pc = "init"
  /\ Construct

\* the session after handle_input(key) left r
Handled(r, key) ==
  /\ session' = [session EXCEPT !.ui = r.ui, !.keys = Append(@, key),
                                !.running = r.running]
  /\ counts' = r.tabs.counts
  /\ contexts' = r.tabs.contexts
  /\ UNCHANGED <<pc, args, n, backoff_weights, words, word_freq, call, previous>>

\* one turn of the loop of run: key = getch(); running = handle_input(key)
HandleInput ==
  /\ pc = "ready"
  /\ session.running
  /\ ~session.ended
  /\ Len(session.keys) < MaxKeys
  /\ \E key \in Keys : Handled(handle_input(session.ui, ThisModel, key), key)

\* the finally clause of run: when the loop ends, or an exception ends it
SessionEnd ==
  /\ pc = "ready"
  /\ ~session.ended
  /\ session' = [session EXCEPT !.ui = finalize_current_word_stats(@),
                                !.running = FALSE, !.ended = TRUE]
  /\ UNCHANGED <<pc, args, fields, call, previous>>

UINext ==
  \/ UIStart
  \/ HandleInput
  \/ SessionEnd

UISpec == UIInit /\ [][UINext]_vars

(***************************************************************************)
(* Properties.                                                             *)
(***************************************************************************)
\* the last k characters of s (the empty string for k = 0)
Suffix(s, k) == SubSeq(s, Len(s) - k + 1, Len(s))
\* the 26 lower-case letters and the space
Symbols27 == Range(Lowers) \cup {" "}
RECURSIVE SumOver(_, _)
SumOver(f, S) ==
  IF S = {} THEN 0 ELSE LET x == CHOOSE x \in S : TRUE IN f[x] + SumOver(f, S \ {x})
HasLetter(text) == \E i \in DOMAIN text : IsLetter(text[i])
Returned(op) == pc = "returned" /\ call.op = op

\* C1: constructing with n <= 0 fails: no model object is produced (and so
\* no query is ever answered by one).
C1_InvalidOrderRejected == args.n <= 0 => pc = "init"

\* C2: get_char_probability returns the smoothed estimate
\* (count + 0.01) / (total + 0.27) of the highest order j in
\* min(len(ctx)+1, n)..1 whose candidate context, the suffix of ctx of length
\* j-1 (empty for j = 1), is in that order's count table, and 1/27 only when
\* no such order exists.
C2_HighestMatchingOrder ==
  (Returned("get_char_probability") /\ n >= 1) =>
    LET matching == {j \in 1..Min(Len(call.context) + 1, n) :
                       Suffix(call.context, j - 1) \in DOMAIN counts[j]}
    IN  IF matching = {}
        THEN call.prob = <<1, 27>>
        ELSE LET j == CHOOSE j \in matching : \A h \in matching : h <= j
                 ctx == Suffix(call.context, j - 1)
             IN  call.prob = <<100 * Get(counts[j][ctx], call.char, 0) + 1,
                               100 * contexts[j][ctx] + 27>>

\* C3: for a model trained on a non-empty corpus and a context of length
\* >= n-1, the probabilities of the 27 symbols add up to 1 (they share one
\* denominator, which their numerators add up to).
C3_SumsToOne ==
  (pc = "ready" /\ n >= 1 /\ Normalize(args.corpus) # <<>>) =>
    \A context \in Contexts :
      Len(context) >= n - 1 =>
        LET p == [s \in Symbols27 |-> get_char_probability(Tables, n, context, s).prob]
        IN  /\ \A s \in Symbols27 : p[s][2] = p[" "][2]
            /\ SumOver([s \in Symbols27 |-> p[s][1]], Symbols27) = p[" "][2]

\* C4: predict_top_words returns only vocabulary words that start with the
\* lower-cased prefix, and the empty list when no vocabulary word does.
C4_OnlyPrefixedWords ==
  Returned("predict_top_words") =>
    /\ \A i \in DOMAIN call.result :
         /\ call.result[i][1] \in Range(words)
         /\ StartsWith(call.result[i][1], Lower(call.context))
    /\ (\A w \in Range(words) : ~StartsWith(w, Lower(call.context))) => call.result = <<>>
C4_Witness ==
  /\ Returned("predict_top_words")
  /\ n >= 1
  /\ call.context = <<"A">>
  /\ Len(call.result) >= 1
  /\ \E w \in Range(words) : ~StartsWith(w, <<"a">>)

\* the list full holds every candidate of the call once, with its score, in
\* non-increasing order of score
IsRanking(full) ==
  /\ \A i \in 1..(Len(full) - 1) : full[i][2] >= full[i + 1][2]
  /\ {full[i][1] : i \in DOMAIN full} = {w \in Range(words) : StartsWith(w, Lower(call.context))}
  /\ \A i, j \in DOMAIN full : full[i][1] = full[j][1] => i = j
  /\ \A i \in DOMAIN full :
       full[i][2] = get_word_probability(Tables, n, word_freq, Lower(call.context), full[i][1]).score
FirstK(k) ==
  /\ Len(call.result) <= k
  /\ \A i \in 1..(Len(call.result) - 1) : call.result[i][2] >= call.result[i + 1][2]
  /\ IsRanking(call.full)
  /\ call.result = SubSeq(call.full, 1, Min(k, Len(call.full)))

\* C5 (as claimed): for every integer k, predict_top_words(prefix, k) returns
\* at most k pairs, scores non-increasing, the first k entries of the full
\* candidate list sorted by score descending.
C5_AtMostKForEveryK == Returned("predict_top_words") => FirstK(call.top_k)
\* C5 (amended): the same for every k >= 0.
C5_AtMostKForNonNegativeK ==
  (Returned("predict_top_words") /\ call.top_k >= 0) => FirstK(call.top_k)
C5_Witness ==
  /\ Returned("predict_top_words")
  /\ n >= 1
  /\ call.top_k = 1
  /\ Len(call.full) = 2
  /\ call.full[1][2] > call.full[2][2]
  /\ Candidates(words, Lower(call.context))[1] = call.full[2][1]

\* what predict_top_words of model object m returns for prefix p and top_k k
Prediction(m, p, k) ==
  predict_top_words([counts |-> m.counts, contexts |-> m.contexts],
                    m.n, m.word_freq, m.words, p, k).result

\* C6: two models constructed from the same corpus and n return the same
\* ordered list for every prefix and k, ties included.
C6_Deterministic ==
  (pc = "ready" /\ previous.built /\ n >= 1) =>
    \A p \in Prefixes, k \in TopKs : Prediction(ThisModel, p, k) = Prediction(previous, p, k)

\* C7: a query leaves the count tables, the context totals, the backoff
\* weights, the vocabulary and the word frequencies as they were.
C7_QueriesReadOnly ==
  [][(pc = "ready" /\ pc' = "returned") => UNCHANGED fields]_vars
C7_Witness ==
  /\ Returned("get_char_probability")
  /\ n = 2
  /\ call.char = "z"
  /\ Len(call.context) = 2
  /\ call.context[2] \notin {c[1] : c \in DOMAIN counts[2]}
  /\ DOMAIN counts[2] # {}

\* C8: get_char_probability returns a value in (0, 1], and the
\* zero-probability branch of get_word_probability is never taken.
C8_ProbabilityInUnitInterval ==
  /\ Returned("get_char_probability") =>
       /\ call.prob[2] > 0
       /\ call.prob[1] > 0
       /\ call.prob[1] <= call.prob[2]
  /\ pc = "returned" => ~call.zero
C8_Witness ==
  /\ Returned("get_char_probability")
  /\ call.order >= 1
  /\ call.char = "z"
  /\ call.prob[1] < call.prob[2]

\* C9: a corpus that is empty, or empty after normalisation, with n >= 1
\* yields a model whose tables and vocabulary are empty, whose
\* get_char_probability is 1/27 and whose predict_top_words is the empty list.
C9_EmptyCorpusDegenerate ==
  (pc # "init" /\ args.n >= 1 /\ ~HasLetter(args.corpus)) =>
    /\ n = args.n
    /\ DOMAIN counts = 0..n /\ DOMAIN contexts = 0..n
    /\ \A j \in 0..n : DOMAIN counts[j] = {} /\ DOMAIN contexts[j] = {}
    /\ words = <<>>
    /\ DOMAIN word_freq = {}
    /\ Returned("get_char_probability") => call.prob = <<1, 27>>
    /\ Returned("predict_top_words") => call.result = <<>>
C9_Witness ==
  /\ Returned("get_char_probability")
  /\ args.n >= 1
  /\ args.corpus # <<>>
  /\ ~HasLetter(args.corpus)
  /\ call.prob = <<1, 27>>

\* C10: for n >= 1 the context handed to get_char_probability for each
\* completion character is the last min(m, n-1) characters of the text scored
\* so far (of length m); it is never longer than n-1.
C10_RollingContext ==
  (Returned("get_word_probability") /\ n >= 1) =>
    \A i \in DOMAIN call.handed :
      LET text == call.context \o
                  SubSeq(call.word, Len(call.context) + 1, Len(call.context) + i - 1)
      IN  /\ call.handed[i] = Suffix(text, Min(Len(text), n - 1))
          /\ Len(call.handed[i]) <= n - 1

\* the model built step by step is the model Construct builds at once
StepwiseAgrees ==
  pc \in {"ready", "returned"} =>
    LET all_words == CorpusWords(sent_tokenize(Normalize(args.corpus)), args.n)
        trained == Train(Join(all_words), args.n)
    IN  /\ n = args.n
        /\ counts = trained.counts
        /\ contexts = trained.contexts
        /\ backoff_weights = BackoffWeights(trained.contexts, args.n)
        /\ words \in Enumerations(VocabularySet(all_words))
        /\ word_freq = word_count(all_words)

\* C11: after every step of training and in the finished model, for every
\* order j in 1..n the count table and the total table of order j have the
\* same contexts, every such context has length j-1, and its total is the sum
\* of its next-character counts.
C11_TotalsMatchCounts ==
  pc # "init" =>
    \A j \in 1..n :
      /\ DOMAIN counts[j] = DOMAIN contexts[j]
      /\ \A ctx \in DOMAIN contexts[j] :
           /\ Len(ctx) = j - 1
           /\ contexts[j][ctx] = SumOver(counts[j][ctx], DOMAIN counts[j][ctx])
C11_Witness ==
  /\ pc = "training"
  /\ InOuterLoop
  /\ n = 2
  /\ \E ctx \in DOMAIN contexts[2] :
       /\ contexts[2][ctx] >= 2
       /\ Cardinality(DOMAIN counts[2][ctx]) >= 2

\* the words of the text typed in the session that have a letter
CompletedWords == SelectSeq(Split(session.ui.user_input), HasLetter)
\* the session was driven by printable characters, Tab and Enter only
TypedOnly ==
  \A i \in DOMAIN session.keys :
    session.keys[i] \in {9, 10} \/ (32 <= session.keys[i] /\ session.keys[i] <= 126)

\* C12: after any sequence of printable-character, Tab and Enter keys and the
\* finalisation at the end of the session, word_stats holds exactly one
\* (k_i, l_i) entry per completed word, l_i being the number of letters of the
\* i-th word; finalising again without a new word adds no entry.
C12_OneEntryPerWord ==
  (session.ended /\ TypedOnly) =>
    /\ Len(session.ui.word_stats) = Len(CompletedWords)
    /\ \A i \in DOMAIN CompletedWords :
         session.ui.word_stats[i][2] = AlphaLen(CompletedWords[i])

====
